---------------------------- MODULE Spec2Model ----------------------------
(***************************************************************************)
(* A model of the core of the Wing compiler driver (wingc):                *)
(*   - Phase::can_call_to                      (ast.rs)                    *)
(*   - the three process-wide ID counters      (ast.rs)                    *)
(*   - compile, the multi-phase driver         (lib.rs)                    *)
(*   - wingc_compile, the WASM entry point     (lib.rs)                    *)
(*   - find_nearest_wing_project_dir           (lib.rs)                    *)
(*   - type_check_file                         (lib.rs)                    *)
(*   - Symbol, Class::closure_handle_method,                               *)
(*     Clone for Reference                     (ast.rs)                    *)
(***************************************************************************)
EXTENDS Integers, Sequences, FiniteSets, TLC

VARIABLES
    \* ---- Phase::can_call_to ----
    calls,              \* the calls of can_call_to made so far, with their results
    \* ---- ID allocator ----
    counter,            \* EXPR_COUNTER / SCOPE_COUNTER / ARGLIST_COUNTER
    pending,            \* per thread: the constructor call in progress (its local `id`)
    nodes,              \* the nodes constructed so far, in construction order
    compiles,           \* number of compiles started in this process
    \* ---- compile ----
    pc,                 \* position of compile
    source_is_dir,      \* what source_path.is_dir() answered after jsification
    sink,               \* the global diagnostics sink, in report order
    topo_sorted_files,  \* the list returned by parse_wing_project
    asts,               \* the IndexMap path -> Scope, as its keys in index order
    lockfiles,          \* the lockfiles that exist in the project directory
    idx,                \* position of the loop in progress
    scope,              \* the Scope taken out of the map by the type-check loop (0: none)
    extern_files,       \* the extern files among types.source_file_envs
    log,                \* the pass invocations so far, in order
    written,            \* the files written to the output directory
    result,             \* what compile returned
    \* ---- wingc_compile ----
    args,               \* the argument string, as its characters
    existing,           \* the paths that exist in the file system
    ret,                \* what wingc_compile returned
    \* ---- find_nearest_wing_project_dir ----
    fs,                 \* the file system: per path, is it a directory, its manifest
    source_path,        \* the argument of the call in progress
    initial_dir,        \* the local initial_dir
    current_dir,        \* the local current_dir
    find_pc,            \* position of find_nearest_wing_project_dir
    find_results,       \* the calls that returned, with their results
    \* ---- Symbol ----
    sym_a, sym_b,       \* two symbols
    sym_applied,        \* the operations applied to them so far
    sym_observed,       \* what the applied operations returned
    \* ---- type_check_file ----
    tcf_file,           \* the file: its name and its package
    tcf_pc,             \* position of type_check_file
    tcf_env,            \* the root environment of the file's scope
    tcf_checked,        \* the symbols bound when the statements were checked
    \* ---- Class::closure_handle_method ----
    class,              \* a class: its methods and its two initializers
    closure_called,     \* closure_handle_method has been called
    closure_handle,     \* what it returned (an Option)
    \* ---- Clone for Reference ----
    reference,          \* a reference
    clone_outcome,      \* how its clone() ended
    cloned              \* what clone() returned

phaseVars == <<calls>>
idVars == <<counter, pending, nodes, compiles>>
compileVars == <<pc, source_is_dir, lockfiles, sink, topo_sorted_files, asts, idx, scope,
                 extern_files, log, written, result>>
wasmVars == <<args, existing, ret>>
findVars == <<fs, source_path, initial_dir, current_dir, find_pc, find_results>>
symbolVars == <<sym_a, sym_b, sym_applied, sym_observed>>
tcfVars == <<tcf_file, tcf_pc, tcf_env, tcf_checked>>
classVars == <<class, closure_called, closure_handle>>
refVars == <<reference, clone_outcome, cloned>>
otherVars == <<findVars, symbolVars, tcfVars, classVars, refVars>>
driverVars == <<phaseVars, idVars, compileVars, wasmVars>>
notFindVars == <<driverVars, symbolVars, tcfVars, classVars, refVars>>
notSymbolVars == <<driverVars, findVars, tcfVars, classVars, refVars>>
notTcfVars == <<driverVars, findVars, symbolVars, classVars, refVars>>
notClassVars == <<driverVars, findVars, symbolVars, tcfVars, refVars>>
notRefVars == <<driverVars, findVars, symbolVars, tcfVars, classVars>>
vars == <<phaseVars, idVars, compileVars, wasmVars, otherVars>>

----------------------------------------------------------------------------
(* Bounds of the model *)

MaxCalls == 3
NumThreads == 2
MaxNodes == 4
MaxCompiles == 2
MaxFiles == 3
MaxErrors == 1
MaxExtern == 2
MaxArgLen == 3
MaxDepth == 2
MaxFindCalls == 2
MaxNameLen == 2
MaxSegments == 3
MaxMethods == 2
MaxFields == 1

----------------------------------------------------------------------------
(* Phase (ast.rs) *)

Phases == {"Inflight", "Preflight", "Independent"}

\* A variant of can_call_to that lets inflight code be called from anywhere.
can_call_to_inflight_open(self, to) ==
    CASE to = "Independent" -> TRUE
      [] to = "Inflight" -> TRUE
      [] to = "Preflight" -> to = self

\* Phase::can_call_to: match on `to`.
can_call_to(self, to) ==
    CASE to = "Independent" -> TRUE
      [] to \in {"Inflight", "Preflight"} -> to = self

InitPhase == calls = <<>>

\* One call P.can_call_to(Q); its result is recorded.
CallCanCallTo(P, Q) ==
    /\ Len(calls) < MaxCalls
    /\ calls' = Append(calls, [from |-> P, to |-> Q, allowed |-> can_call_to(P, Q)])
    /\ UNCHANGED <<idVars, compileVars, wasmVars, otherVars>>

----------------------------------------------------------------------------
(* The identifier allocator (ast.rs) *)

Kinds == {"expr", "scope", "arglist"}
Threads == 1..NumThreads

Idle == [kind |-> "none", id |-> 0, stage |-> "idle"]

InFlight == Cardinality({t \in Threads : pending[t].stage # "idle"})

InitIds ==
    /\ counter = [k \in Kinds |-> 0]
    /\ pending = [t \in Threads |-> Idle]
    /\ nodes = <<>>
    /\ compiles = 0

\* A variant of fetch_add that is a separate load and store.
load_then_store(t, k) ==
    \/ /\ pending[t] = Idle
       /\ Len(nodes) + InFlight < MaxNodes
       /\ pending' = [pending EXCEPT ![t] =
                        [kind |-> k, id |-> counter[k], stage |-> "loaded"]]
       /\ UNCHANGED counter
    \/ /\ pending[t].stage = "loaded"
       /\ pending[t].kind = k
       /\ counter' = [counter EXCEPT ![k] = pending[t].id + 1]
       /\ pending' = [pending EXCEPT ![t].stage = "got"]

\* COUNTER.fetch_add(1, ordering): one atomic step that returns the counter's
\* value into the constructor's local and advances the counter.
fetch_add(t, k) ==
    /\ pending[t] = Idle
    /\ Len(nodes) + InFlight < MaxNodes
    /\ pending' = [pending EXCEPT ![t] =
                     [kind |-> k, id |-> counter[k], stage |-> "got"]]
    /\ counter' = [counter EXCEPT ![k] = @ + 1]

ExprNew(t) ==
    /\ fetch_add(t, "expr")
    /\ UNCHANGED <<nodes, compiles, phaseVars, compileVars, wasmVars, otherVars>>

ScopeEmpty(t) ==
    /\ fetch_add(t, "scope")
    /\ UNCHANGED <<nodes, compiles, phaseVars, compileVars, wasmVars, otherVars>>

ScopeNew(t) ==
    /\ fetch_add(t, "scope")
    /\ UNCHANGED <<nodes, compiles, phaseVars, compileVars, wasmVars, otherVars>>

ArgListNew(t) ==
    /\ fetch_add(t, "arglist")
    /\ UNCHANGED <<nodes, compiles, phaseVars, compileVars, wasmVars, otherVars>>

\* ArgList::new_empty calls ArgList::new.
ArgListNewEmpty(t) ==
    /\ fetch_add(t, "arglist")
    /\ UNCHANGED <<nodes, compiles, phaseVars, compileVars, wasmVars, otherVars>>

\* The constructor returns the node holding the id it obtained.
Construct(t) ==
    /\ pending[t].stage = "got"
    /\ nodes' = Append(nodes, [kind |-> pending[t].kind, id |-> pending[t].id])
    /\ pending' = [pending EXCEPT ![t] = Idle]
    /\ UNCHANGED <<counter, compiles, phaseVars, compileVars, wasmVars, otherVars>>

\* A variant of the start of a compile with per-compile counters.
compile_entry_resets == [k \in Kinds |-> 0]

\* What the start of compile does to the counters: nothing.
compile_entry == counter

\* A (further) compile starts in the process; the counters are process-wide.
StartCompile ==
    /\ compiles < MaxCompiles
    /\ compiles' = compiles + 1
    /\ counter' = compile_entry
    /\ UNCHANGED <<pending, nodes, phaseVars, compileVars, wasmVars, otherVars>>

----------------------------------------------------------------------------
(* The diagnostics sink, as compile uses it *)

Error(phase) == [severity |-> "error", phase |-> phase]
Warning(phase) == [severity |-> "warning", phase |-> phase]

NumErrors == Cardinality({i \in 1..Len(sink) : sink[i].severity = "error"})

\* found_errors(): a diagnostic of severity error is in the sink.
found_errors == \E i \in 1..Len(sink) : sink[i].severity = "error"

\* The sinks a pass of the given phase can leave: it reports an error or not.
MayReport(phase) ==
    {sink} \cup (IF NumErrors < MaxErrors THEN {Append(sink, Error(phase))} ELSE {})

----------------------------------------------------------------------------
(* IndexMap, as its keys in index order *)

Range(s) == {s[i] : i \in 1..Len(s)}

IsPrefix(s, t) == Len(s) <= Len(t) /\ \A i \in 1..Len(s) : s[i] = t[i]

IndexOf(s, x) == CHOOSE i \in 1..Len(s) : s[i] = x

\* A variant of the removal that takes the last entry out, whatever the key.
remove_last(s, x) == IF s = <<>> THEN s ELSE SubSeq(s, 1, Len(s) - 1)

\* IndexMap::swap_remove: the last entry takes the removed entry's place.
swap_remove(s, x) ==
    IF x \notin Range(s) THEN s
    ELSE LET i == IndexOf(s, x)
             n == Len(s)
         IN  [j \in 1..(n - 1) |-> IF j = i THEN s[n] ELSE s[j]]

\* IndexMap::insert: a new key goes to the end, a present key keeps its place.
insert(s, x) == IF x \in Range(s) THEN s ELSE Append(s, x)

Perms(n) == {p \in [1..n -> 1..n] : \A i, j \in 1..n : i # j => p[i] # p[j]}

Visit(pass, f) == [pass |-> pass, file |-> f]

----------------------------------------------------------------------------
(* compile (lib.rs) *)

LOCKFILES == <<"pnpm-lock.yaml", "yarn.lock", "bun.lock", "bun.lockb">>

\* compile has not been called.
InitCompileIdle ==
    /\ pc = "start"
    /\ source_is_dir = FALSE
    /\ lockfiles = {}
    /\ sink = <<>>
    /\ topo_sorted_files = <<>>
    /\ asts = <<>>
    /\ idx = 0
    /\ scope = 0
    /\ extern_files = 0
    /\ log = <<>>
    /\ written = {}
    /\ result = "none"

\* compile is entered: the sink is empty, the output directory holds nothing of
\* this compile, and the file system is in any state.
InitCompile ==
    /\ pc = "start"
    /\ source_is_dir = FALSE
    /\ lockfiles \in SUBSET Range(LOCKFILES)
    /\ sink = <<>>
    /\ topo_sorted_files = <<>>
    /\ asts = <<>>
    /\ idx = 0
    /\ scope = 0
    /\ extern_files = 0
    /\ log = <<>>
    /\ written = {}
    /\ result = "none"

\* parse_wing_project: what it can leave and return. Every reachable file gets
\* a scope in the AST map, also a file that failed to parse (files are named by
\* their place in the map); the returned list holds the same files, sorted.
parse_wing_project ==
    UNION {{[asts |-> [i \in 1..n |-> i], sorted |-> p, failed |-> e] :
               p \in Perms(n), e \in BOOLEAN} : n \in 1..MaxFiles}

\* -- PARSING PHASE --  let topo_sorted_files = parse_wing_project(.., &mut asts)
ParsePhase ==
    /\ pc = "start"
    /\ \E r \in parse_wing_project :
          /\ r.failed => NumErrors < MaxErrors
          /\ asts' = r.asts
          /\ topo_sorted_files' = r.sorted
          /\ log' = log \o [i \in 1..Len(r.asts) |-> Visit("parse", r.asts[i])]
          /\ sink' = IF r.failed THEN Append(sink, Error("parse")) ELSE sink
    /\ pc' = "warn"
    /\ UNCHANGED <<source_is_dir, lockfiles, idx, scope, extern_files, written, result,
                   phaseVars, idVars, wasmVars, otherVars>>

\* A variant that warns once when any lockfile is found.
LockfileWarningOnce ==
    IF lockfiles # {} THEN <<Warning("lockfile")>> ELSE <<>>

\* emit_warning_for_unsupported_package_managers: one warning per lockfile found.
LockfileWarnings ==
    LET present == SelectSeq(LOCKFILES, LAMBDA l : l \in lockfiles)
    IN  [i \in 1..Len(present) |-> Warning("lockfile")]

EmitWarnings ==
    /\ pc = "warn"
    /\ sink' = sink \o LockfileWarnings
    /\ pc' = "desugar"
    /\ idx' = 1
    /\ UNCHANGED <<source_is_dir, lockfiles, topo_sorted_files, asts, scope, extern_files,
                   log, written, result, phaseVars, idVars, wasmVars, otherVars>>

\* A variant of the desugaring phase that returns after it when the sink holds
\* an error.
DesugarGated ==
    /\ pc = "desugar"
    /\ log' = Append(log, Visit("closure", asts[idx]))
    /\ IF idx < Len(asts)
          THEN idx' = idx + 1 /\ pc' = pc /\ result' = result
          ELSE /\ idx' = 1
               /\ pc' = IF found_errors THEN "done" ELSE "tc_remove"
               /\ result' = IF found_errors THEN "Err" ELSE result
    /\ UNCHANGED <<source_is_dir, lockfiles, sink, topo_sorted_files, asts, scope,
                   extern_files, written, phaseVars, idVars, wasmVars, otherVars>>

\* -- DESUGARING PHASE --  asts.into_iter().map(fold_scope).collect()
Desugar ==
    /\ pc = "desugar"
    /\ log' = Append(log, Visit("closure", asts[idx]))
    /\ IF idx < Len(asts)
          THEN idx' = idx + 1 /\ pc' = pc
          ELSE idx' = 1 /\ pc' = "tc_remove"
    /\ UNCHANGED <<source_is_dir, lockfiles, sink, topo_sorted_files, asts, scope,
                   extern_files, written, result, phaseVars, idVars, wasmVars, otherVars>>

\* A variant of the loop that walks the files in the order of the AST map.
tc_file_in_map_order == idx

\* -- TYPECHECKING PHASE --  for file in &topo_sorted_files
tc_file == topo_sorted_files[idx]

\* asts.swap_remove(&file.path).expect("matching AST not found")
TcRemove ==
    /\ pc = "tc_remove"
    /\ tc_file \in Range(asts)
    /\ scope' = tc_file
    /\ asts' = swap_remove(asts, tc_file)
    /\ pc' = "tc_check"
    /\ UNCHANGED <<source_is_dir, lockfiles, sink, topo_sorted_files, idx, extern_files,
                   log, written, result, phaseVars, idVars, wasmVars, otherVars>>

\* type_check_file(&mut scope, ...)
TcCheck ==
    /\ pc = "tc_check"
    /\ log' = Append(log, Visit("typecheck", scope))
    /\ sink' \in MayReport("typecheck")
    /\ pc' = "tc_typeref"
    /\ UNCHANGED <<source_is_dir, lockfiles, topo_sorted_files, asts, idx, scope,
                   extern_files, written, result, phaseVars, idVars, wasmVars, otherVars>>

\* tr_transformer.fold_scope(scope)
TcTypeRef ==
    /\ pc = "tc_typeref"
    /\ log' = Append(log, Visit("typeref", scope))
    /\ pc' = "tc_assert"
    /\ UNCHANGED <<source_is_dir, lockfiles, sink, topo_sorted_files, asts, idx, scope,
                   extern_files, written, result, phaseVars, idVars, wasmVars, otherVars>>

\* tc_assert.check(&scope)
TcAssert ==
    /\ pc = "tc_assert"
    /\ log' = Append(log, Visit("tc_assert", scope))
    /\ pc' = "tc_json"
    /\ UNCHANGED <<source_is_dir, lockfiles, sink, topo_sorted_files, asts, idx, scope,
                   extern_files, written, result, phaseVars, idVars, wasmVars, otherVars>>

\* A variant of the loop that lifts each file right after validating it.
TcJsonThenLift ==
    /\ pc = "tc_json"
    /\ log' = log \o <<Visit("json", scope), Visit("lift", scope)>>
    /\ sink' \in MayReport("json")
    /\ pc' = "tc_insert"
    /\ UNCHANGED <<source_is_dir, lockfiles, topo_sorted_files, asts, idx, scope,
                   extern_files, written, result, phaseVars, idVars, wasmVars, otherVars>>

\* json_checker.check(&scope)
TcJson ==
    /\ pc = "tc_json"
    /\ log' = Append(log, Visit("json", scope))
    /\ sink' \in MayReport("json")
    /\ pc' = "tc_insert"
    /\ UNCHANGED <<source_is_dir, lockfiles, topo_sorted_files, asts, idx, scope,
                   extern_files, written, result, phaseVars, idVars, wasmVars, otherVars>>

\* asts.insert(file.path.to_owned(), scope), and the loop goes on or ends
TcInsert ==
    /\ pc = "tc_insert"
    /\ asts' = insert(asts, scope)
    /\ scope' = 0
    /\ IF idx < Len(topo_sorted_files)
          THEN idx' = idx + 1 /\ pc' = "tc_remove"
          ELSE idx' = 1 /\ pc' = "lift"
    /\ UNCHANGED <<source_is_dir, lockfiles, sink, topo_sorted_files, extern_files,
                   log, written, result, phaseVars, idVars, wasmVars, otherVars>>

\* A variant of the lift pass that walks the sorted list.
lift_file_in_topo_order == topo_sorted_files[idx]

\* -- LIFTING PHASE --  asts.into_iter().map(lift.visit_scope).collect()
lift_file == asts[idx]

Lift ==
    /\ pc = "lift"
    /\ log' = Append(log, Visit("lift", lift_file))
    /\ sink' \in MayReport("lift")
    /\ IF idx < Len(asts)
          THEN idx' = idx + 1 /\ pc' = pc
          ELSE idx' = 1 /\ pc' = "bail"
    /\ UNCHANGED <<source_is_dir, lockfiles, topo_sorted_files, asts, scope, extern_files,
                   written, result, phaseVars, idVars, wasmVars, otherVars>>

\* A variant of the bail-out that goes on whatever the sink holds.
BailNever ==
    /\ pc = "bail"
    /\ pc' = "schema"
    /\ UNCHANGED <<source_is_dir, lockfiles, sink, topo_sorted_files, asts, idx, scope,
                   extern_files, log, written, result, phaseVars, idVars, wasmVars, otherVars>>

\* if found_errors() { return Err(()); }
Bail ==
    /\ pc = "bail"
    /\ IF found_errors
          THEN pc' = "done" /\ result' = "Err"
          ELSE pc' = "schema" /\ result' = result
    /\ UNCHANGED <<source_is_dir, lockfiles, sink, topo_sorted_files, asts, idx, scope,
                   extern_files, log, written, phaseVars, idVars, wasmVars, otherVars>>

\* -- STRUCT SCHEMA GENERATION PHASE --
StructSchema ==
    /\ pc = "schema"
    /\ log' = Append(log, Visit("schema", asts[idx]))
    /\ IF idx < Len(asts)
          THEN idx' = idx + 1 /\ pc' = pc
          ELSE idx' = 1 /\ pc' = "jsify"
    /\ UNCHANGED <<source_is_dir, lockfiles, sink, topo_sorted_files, asts, scope,
                   extern_files, written, result, phaseVars, idVars, wasmVars, otherVars>>

\* -- JSIFICATION PHASE --  for file in &topo_sorted_files { jsifier.jsify }
Jsify ==
    /\ pc = "jsify"
    /\ topo_sorted_files[idx] \in Range(asts)
    /\ log' = Append(log, Visit("jsify", topo_sorted_files[idx]))
    /\ sink' \in MayReport("jsify")
    /\ IF idx < Len(topo_sorted_files)
          THEN idx' = idx + 1 /\ pc' = pc
          ELSE idx' = 1 /\ pc' = "js_emit"
    /\ UNCHANGED <<source_is_dir, lockfiles, topo_sorted_files, asts, scope, extern_files,
                   written, result, phaseVars, idVars, wasmVars, otherVars>>

\* The files a phase accumulated in memory: one per visited source file.
OutputFiles(kind, pass) ==
    {<<kind, log[i].file>> : i \in {j \in 1..Len(log) : log[j].pass = pass}}

\* Files::emit_files(out_dir): every file is written and Ok returned, or Err is
\* returned and reported by the caller.
emit_files(kind, pass) ==
    \/ /\ written' = written \cup OutputFiles(kind, pass)
       /\ sink' = sink
    \/ /\ written' = written
       /\ sink' = Append(sink, Error("emit_" \o kind))

\* if !found_errors() { jsifier.output_files.emit_files(out_dir) }, then
\* source_path.is_dir() is asked: the declaration phase follows when it is a
\* directory, the loop over types.source_file_envs when it is not.
JsEmit ==
    /\ pc = "js_emit"
    /\ IF found_errors
          THEN UNCHANGED <<written, sink>>
          ELSE emit_files("js", "jsify")
    /\ source_is_dir' \in BOOLEAN
    /\ IF source_is_dir'
          THEN pc' = "dtsify" /\ extern_files' = extern_files
          ELSE pc' = "extern" /\ extern_files' \in 0..MaxExtern
    /\ UNCHANGED <<lockfiles, topo_sorted_files, asts, idx, scope, log,
                   result, phaseVars, idVars, wasmVars, otherVars>>

\* -- DTSIFICATION PHASE --  if source_path.is_dir() { for file ... dtsify }
Dtsify ==
    /\ pc = "dtsify"
    /\ topo_sorted_files[idx] \in Range(asts)
    /\ log' = Append(log, Visit("dtsify", topo_sorted_files[idx]))
    /\ sink' \in MayReport("dtsify")
    /\ IF idx < Len(topo_sorted_files)
          THEN idx' = idx + 1 /\ pc' = pc
          ELSE idx' = 1 /\ pc' = "dts_emit"
    /\ UNCHANGED <<source_is_dir, lockfiles, topo_sorted_files, asts, scope, extern_files,
                   written, result, phaseVars, idVars, wasmVars, otherVars>>

\* if !found_errors() { dtsifier.output_files.emit_files(out_dir) }
DtsEmit ==
    /\ pc = "dts_emit"
    /\ IF found_errors
          THEN UNCHANGED <<written, sink>>
          ELSE emit_files("dts", "dtsify")
    /\ pc' = "extern"
    /\ extern_files' \in 0..MaxExtern
    /\ UNCHANGED <<source_is_dir, lockfiles, topo_sorted_files, asts, idx, scope, log,
                   result, phaseVars, idVars, wasmVars, otherVars>>

\* -- EXTERN DTSIFICATION PHASE --  one extern file of types.source_file_envs:
\* if !found_errors() { extern_dtsifier.dtsify(..) }, which writes the file's
\* declarations or returns Err, which is reported.
ExternDtsify ==
    /\ pc = "extern"
    /\ idx <= extern_files
    /\ IF found_errors
          THEN UNCHANGED <<written, sink, log>>
          ELSE /\ log' = Append(log, Visit("extern_dtsify", idx))
               /\ \/ /\ written' = written \cup {<<"extern", idx>>}
                     /\ sink' = sink
                  \/ /\ written' = written
                     /\ sink' = Append(sink, Error("extern_dtsify"))
    /\ idx' = idx + 1
    /\ UNCHANGED <<pc, source_is_dir, lockfiles, topo_sorted_files, asts, scope,
                   extern_files, result, phaseVars, idVars, wasmVars, otherVars>>

\* A variant of the final result that fails the compile on any diagnostic.
ReturnErrOnAnyDiagnostic ==
    /\ pc = "extern"
    /\ idx > extern_files
    /\ result' = IF sink # <<>> THEN "Err" ELSE "Ok"
    /\ pc' = "done"
    /\ UNCHANGED <<source_is_dir, lockfiles, sink, topo_sorted_files, asts, idx, scope,
                   extern_files, log, written, phaseVars, idVars, wasmVars, otherVars>>

\* if found_errors() { return Err(()) } ... Ok(CompilerOutput { .. })
Return ==
    /\ pc = "extern"
    /\ idx > extern_files
    /\ result' = IF found_errors THEN "Err" ELSE "Ok"
    /\ pc' = "done"
    /\ UNCHANGED <<source_is_dir, lockfiles, sink, topo_sorted_files, asts, idx, scope,
                   extern_files, log, written, phaseVars, idVars, wasmVars, otherVars>>

----------------------------------------------------------------------------
(* wingc_compile (lib.rs) *)

Chars == {"a", ";"}

Strings == UNION {[1..n -> Chars] : n \in 0..MaxArgLen}

\* The source path the model's file system may hold.
SourcePath == <<"a">>

\* str::split(";"): the pieces between the separators, empty pieces included.
RECURSIVE split(_)
split(s) ==
    IF \E i \in 1..Len(s) : s[i] = ";"
       THEN LET i == CHOOSE k \in 1..Len(s) :
                        s[k] = ";" /\ \A j \in 1..(k - 1) : s[j] # ";"
            IN  <<SubSeq(s, 1, i - 1)>> \o split(SubSeq(s, i + 1, Len(s)))
       ELSE <<s>>

\* wingc_compile has not been called.
InitWasmIdle ==
    /\ args = <<>>
    /\ existing = {}
    /\ ret = "none"

\* wingc_compile is about to be called with any argument string; the source
\* path exists or not, and the project directory holds yarn.lock or not.
InitWasm ==
    /\ args \in Strings
    /\ existing \in SUBSET {SourcePath}
    /\ ret = "none"
    /\ pc = "idle"
    /\ source_is_dir = FALSE
    /\ lockfiles \in {{}, {"yarn.lock"}}
    /\ sink = <<>>
    /\ topo_sorted_files = <<>>
    /\ asts = <<>>
    /\ idx = 0
    /\ scope = 0
    /\ extern_files = 0
    /\ log = <<>>
    /\ written = {}
    /\ result = "none"

\* A variant of the entry that compiles whatever the source path.
WingcCompileAnyPath ==
    /\ pc = "idle" /\ ret = "none"
    /\ IF Len(split(args)) # 2
          THEN /\ sink' = Append(sink, Error("wingc_compile"))
               /\ ret' = "WASM_RETURN_ERROR"
               /\ pc' = pc
          ELSE /\ pc' = "start"
               /\ UNCHANGED <<sink, ret>>
    /\ UNCHANGED <<args, existing, source_is_dir, lockfiles, topo_sorted_files, asts, idx,
                   scope, extern_files, log, written, result, phaseVars, idVars,
                   otherVars>>

\* wingc_compile up to its call of compile: the argument is split, the number
\* of parts and the source path are tested, each failure reports one error and
\* returns WASM_RETURN_ERROR.
WingcCompile ==
    /\ pc = "idle" /\ ret = "none"
    /\ IF Len(split(args)) # 2
          THEN /\ sink' = Append(sink, Error("wingc_compile"))
               /\ ret' = "WASM_RETURN_ERROR"
               /\ pc' = pc
          ELSE IF split(args)[1] \notin existing
          THEN /\ sink' = Append(sink, Error("wingc_compile"))
               /\ ret' = "WASM_RETURN_ERROR"
               /\ pc' = pc
          ELSE /\ pc' = "start"
               /\ UNCHANGED <<sink, ret>>
    /\ UNCHANGED <<args, existing, source_is_dir, lockfiles, topo_sorted_files, asts, idx,
                   scope, extern_files, log, written, result, phaseVars, idVars,
                   otherVars>>

\* compile returned to wingc_compile: the JSON of the CompilerOutput on Ok,
\* WASM_RETURN_ERROR on Err.
WingcCompileReturn ==
    /\ pc = "done" /\ ret = "none"
    /\ ret' = IF result = "Ok" THEN "json" ELSE "WASM_RETURN_ERROR"
    /\ UNCHANGED <<args, existing, compileVars, phaseVars, idVars, otherVars>>

----------------------------------------------------------------------------
(* find_nearest_wing_project_dir (lib.rs) *)

\* Paths, as Utf8Path sees them: absolute or relative, and their components.
\* "/" is the absolute path without components, "" the relative one.
Names == {"d"}

Paths == [abs : BOOLEAN, comps : UNION {[1..n -> Names] : n \in 0..MaxDepth}]

Root == [abs |-> TRUE, comps |-> <<>>]

Empty == [abs |-> FALSE, comps |-> <<>>]

\* Utf8Path::parent: None for "/" and for "", the path without its last
\* component otherwise ("" for a bare name).
has_parent(p) == p.comps # <<>>

parent(p) == [p EXCEPT !.comps = SubSeq(p.comps, 1, Len(p.comps) - 1)]

\* A variant that keeps a path without parent as it is.
parent_or_self(p) == IF has_parent(p) THEN parent(p) ELSE p

\* path.parent().unwrap_or_else(|| Utf8Path::new("/"))
parent_or_root(p) == IF has_parent(p) THEN parent(p) ELSE Root

\* What a directory can hold of the two manifests.
Manifests ==
    {"none", "wing.toml", "package.json with wing", "package.json without wing",
     "package.json unparsable"}

\* Utf8Path::is_dir; it fails for "", which names no file.
is_dir(p) == fs[p].dir

\* A file system in which the directories on the way to src exist down to
\* depth n, each holding the manifest mf gives it. Files named through ""
\* are those of the working directory; "/" is a directory.
Layout(src, n, mf, rootm) ==
    [p \in Paths |->
        IF p = Root
           THEN [dir |-> TRUE, manifest |-> IF src.abs THEN mf[0] ELSE rootm]
        ELSE IF /\ p.abs = src.abs
                /\ Len(p.comps) <= n
                /\ IsPrefix(p.comps, src.comps)
           THEN [dir |-> p # Empty, manifest |-> mf[Len(p.comps)]]
        ELSE [dir |-> FALSE, manifest |-> "none"]]

\* find_nearest_wing_project_dir has not been called.
InitFindIdle ==
    /\ fs = [p \in Paths |-> [dir |-> p = Root, manifest |-> "none"]]
    /\ source_path = Root
    /\ initial_dir = Root
    /\ current_dir = Root
    /\ find_pc = "idle"
    /\ find_results = <<>>

\* find_nearest_wing_project_dir is called with any path in any file system.
InitFind ==
    /\ source_path \in Paths
    /\ \E n \in 0..Len(source_path.comps), mf \in [0..MaxDepth -> Manifests],
          rootm \in Manifests : fs = Layout(source_path, n, mf, rootm)
    /\ initial_dir = Root
    /\ current_dir = Root
    /\ find_pc = "call"
    /\ find_results = <<>>

\* A variant of the test that takes any package.json for a manifest.
has_any_manifest(dir) == fs[dir].manifest # "none"

\* The two tests of the loop: wing.toml exists, or package.json exists and
\* parses to a JSON value that has a "wing" key.
is_wing_project(dir) ==
    IF fs[dir].manifest = "wing.toml" THEN TRUE
    ELSE IF fs[dir].manifest \in {"package.json with wing", "package.json without wing",
                                  "package.json unparsable"}
       THEN fs[dir].manifest = "package.json with wing"
    ELSE FALSE

\* let initial_dir = if source_path.is_dir() { source_path } else { parent or "/" }
FindStart ==
    /\ find_pc = "call"
    /\ initial_dir' = IF is_dir(source_path) THEN source_path
                                              ELSE parent_or_root(source_path)
    /\ current_dir' = initial_dir'
    /\ find_pc' = "loop"
    /\ UNCHANGED <<fs, source_path, find_results, notFindVars>>

\* One iteration of the loop: return current_dir on a match, leave the loop
\* and return initial_dir at "/", go to the parent otherwise.
FindLoop ==
    /\ find_pc = "loop"
    /\ IF is_wing_project(current_dir)
          THEN /\ find_results' =
                     Append(find_results, [arg |-> source_path, ret |-> current_dir])
               /\ find_pc' = "returned"
               /\ current_dir' = current_dir
          ELSE IF current_dir = Root
          THEN /\ find_results' =
                     Append(find_results, [arg |-> source_path, ret |-> initial_dir])
               /\ find_pc' = "returned"
               /\ current_dir' = current_dir
          ELSE /\ current_dir' = parent_or_root(current_dir)
               /\ UNCHANGED <<find_results, find_pc>>
    /\ UNCHANGED <<fs, source_path, initial_dir, notFindVars>>

\* The function is called again, on the directory it returned.
FindAgain ==
    /\ find_pc = "returned"
    /\ Len(find_results) < MaxFindCalls
    /\ source_path' = find_results[Len(find_results)].ret
    /\ find_pc' = "call"
    /\ UNCHANGED <<fs, initial_dir, current_dir, find_results, notFindVars>>

----------------------------------------------------------------------------
(* Symbol (ast.rs) *)

\* Names are strings, as their bytes; spans are (file, start, end).
Bytes == {97, 98}

SymbolNames == UNION {[1..n -> Bytes] : n \in 0..MaxNameLen}

Spans == {sp \in [file : 1..2, start : 0..1, end : 0..1] : sp.start <= sp.end}

Symbols == [name : SymbolNames, span : Spans]

\* Ord for integers.
int_cmp(x, y) == IF x < y THEN "Less" ELSE IF x = y THEN "Equal" ELSE "Greater"

\* Ordering::then
ordering_then(first, second) == IF first = "Equal" THEN second ELSE first

\* Ord for str: lexicographic over the bytes, a proper prefix is less.
RECURSIVE str_cmp(_, _)
str_cmp(x, y) ==
    IF x = <<>> /\ y = <<>> THEN "Equal"
    ELSE IF x = <<>> THEN "Less"
    ELSE IF y = <<>> THEN "Greater"
    ELSE ordering_then(int_cmp(Head(x), Head(y)), str_cmp(Tail(x), Tail(y)))

\* Ord for WingSpan: by file, then by start, then by end.
span_cmp(x, y) ==
    ordering_then(int_cmp(x.file, y.file),
                  ordering_then(int_cmp(x.start, y.start), int_cmp(x.end, y.end)))

\* What a Hasher makes of the bytes written to it.
RECURSIVE Digest(_)
Digest(bytes) == IF bytes = <<>> THEN 0 ELSE (Head(bytes) + 3 * Digest(Tail(bytes))) % 4

\* Symbol::same
same(self, other) == self.name = other.name /\ self.span = other.span

\* Ord for Symbol
cmp(self, other) ==
    ordering_then(str_cmp(self.name, other.name), span_cmp(self.span, other.span))

\* A variant of hash that also writes the start of the span.
hash_with_span(self) == Digest(self.name \o <<255, self.span.start>>)

\* Hash for Symbol: self.name.hash(state) writes the bytes of the name and 0xff.
hash(self) == Digest(self.name \o <<255>>)

\* A variant of eq that also compares the spans.
eq_with_span(self, other) == self.name = other.name /\ self.span = other.span

\* PartialEq for Symbol
eq(self, other) == self.name = other.name

\* Equivalent<Symbol> for str
equivalent(self, key) == self = key.name

SymbolOps == {"eq", "hash", "same", "cmp", "equivalent"}

NoObservation ==
    [eq |-> FALSE, hash_a |-> 0, hash_b |-> 0, same |-> FALSE, cmp |-> "Equal",
     equivalent |-> FALSE]

\* No symbol is being compared.
InitSymbolIdle ==
    /\ sym_a = [name |-> <<>>, span |-> [file |-> 1, start |-> 0, end |-> 0]]
    /\ sym_b = sym_a
    /\ sym_applied = {}
    /\ sym_observed = NoObservation

\* Any two symbols.
InitSymbol ==
    /\ sym_a \in Symbols
    /\ sym_b \in Symbols
    /\ sym_applied = {}
    /\ sym_observed = NoObservation

Observe(op, obs) ==
    /\ op \notin sym_applied
    /\ sym_applied' = sym_applied \cup {op}
    /\ sym_observed' = obs
    /\ UNCHANGED <<sym_a, sym_b, notSymbolVars>>

\* a == b
ApplyEq == Observe("eq", [sym_observed EXCEPT !.eq = eq(sym_a, sym_b)])

\* a.hash(..), b.hash(..)
ApplyHash ==
    Observe("hash", [sym_observed EXCEPT !.hash_a = hash(sym_a), !.hash_b = hash(sym_b)])

\* a.same(&b)
ApplySame == Observe("same", [sym_observed EXCEPT !.same = same(sym_a, sym_b)])

\* a.cmp(&b)
ApplyCmp == Observe("cmp", [sym_observed EXCEPT !.cmp = cmp(sym_a, sym_b)])

\* b.name.as_str().equivalent(&a): the lookup of a map keyed by Symbol
ApplyEquivalent ==
    Observe("equivalent", [sym_observed EXCEPT !.equivalent = equivalent(sym_b.name, sym_a)])

----------------------------------------------------------------------------
(* type_check_file (lib.rs) *)

\* File names, as their segments between the dots: <<"app", "main", "w">>.
Segments == {"app", "main", "test", "w"}

FileNames == UNION {[1..n -> Segments] : n \in 1..MaxSegments}

Packages == {"rootpkg", "lib"}

WINGSDK_STD_MODULE == "std"

\* The suffixes that make a file an entrypoint.
EntrypointSuffixes == {<<"main", "w">>, <<"test", "w">>}

\* is_entrypoint_file(&file.path): the name ends with an entrypoint suffix.
is_entrypoint_file(path) ==
    \E suf \in EntrypointSuffixes :
        /\ Len(path) >= Len(suf)
        /\ SubSeq(path, Len(path) - Len(suf) + 1, Len(path)) = suf

NoEnv ==
    [parent |-> "None", kind |-> "none", phase |-> "none", statement_idx |-> 0,
     package |-> "", symbols |-> {}, scope_env |-> FALSE]

\* type_check_file has not been called.
InitTcfIdle ==
    /\ tcf_file = [path |-> <<"w">>, package |-> "rootpkg"]
    /\ tcf_pc = "idle"
    /\ tcf_env = NoEnv
    /\ tcf_checked = {}

\* type_check_file is called on any file.
InitTcf ==
    /\ tcf_file \in [path : FileNames, package : Packages]
    /\ tcf_pc = "call"
    /\ tcf_env = NoEnv
    /\ tcf_checked = {}

\* types.add_symbol_env(SymbolEnv::new(None, Scope, Preflight, 0, file.package))
TcfNewEnv ==
    /\ tcf_pc = "call"
    /\ tcf_env' = [parent |-> "None", kind |-> "Scope", phase |-> "Preflight",
                   statement_idx |-> 0, package |-> tcf_file.package,
                   symbols |-> {}, scope_env |-> FALSE]
    /\ tcf_pc' = "set_scope_env"
    /\ UNCHANGED <<tcf_file, tcf_checked, notTcfVars>>

\* types.set_scope_env(scope, env)
TcfSetScopeEnv ==
    /\ tcf_pc = "set_scope_env"
    /\ tcf_env' = [tcf_env EXCEPT !.scope_env = TRUE]
    /\ tcf_pc' = "add_std"
    /\ UNCHANGED <<tcf_file, tcf_checked, notTcfVars>>

\* TypeChecker::new(..); tc.add_jsii_module_to_env(&mut env, .., std, ..)
TcfAddStd ==
    /\ tcf_pc = "add_std"
    /\ tcf_env' = [tcf_env EXCEPT !.symbols = @ \cup {WINGSDK_STD_MODULE}]
    /\ tcf_pc' = "add_builtins"
    /\ UNCHANGED <<tcf_file, tcf_checked, notTcfVars>>

\* tc.add_builtins(scope)
TcfAddBuiltins ==
    /\ tcf_pc = "add_builtins"
    /\ tcf_env' = [tcf_env EXCEPT !.symbols = @ \cup {"builtins"}]
    /\ tcf_pc' = "add_this"
    /\ UNCHANGED <<tcf_file, tcf_checked, notTcfVars>>

\* A variant that binds `this` in every file.
TcfAddThisAlways ==
    /\ tcf_pc = "add_this"
    /\ tcf_env' = [tcf_env EXCEPT !.symbols = @ \cup {"this"}]
    /\ tcf_pc' = "check"
    /\ UNCHANGED <<tcf_file, tcf_checked, notTcfVars>>

\* if is_entrypoint_file(&file.path) { tc.add_this(&mut env); }
TcfAddThis ==
    /\ tcf_pc = "add_this"
    /\ tcf_env' = IF is_entrypoint_file(tcf_file.path)
                     THEN [tcf_env EXCEPT !.symbols = @ \cup {"this"}]
                     ELSE tcf_env
    /\ tcf_pc' = "check"
    /\ UNCHANGED <<tcf_file, tcf_checked, notTcfVars>>

\* tc.type_check_file_or_dir(scope): the statements are checked in the
\* environment as it is now.
TcfCheck ==
    /\ tcf_pc = "check"
    /\ tcf_checked' = tcf_env.symbols
    /\ tcf_pc' = "done"
    /\ UNCHANGED <<tcf_file, tcf_env, notTcfVars>>

----------------------------------------------------------------------------
(* Class (ast.rs) *)

CLOSURE_CLASS_HANDLE_METHOD == "handle"

MethodNames == {CLOSURE_CLASS_HANDLE_METHOD, "other"}

\* FunctionDefinition: its name (an Option, as a sequence of at most one name)
\* and the phase of its signature.
MethodDefinitions ==
    [name : {<<>>} \cup {<<m>> : m \in MethodNames}, phase : Phases]

Classes ==
    [methods : UNION {[1..n -> MethodDefinitions] : n \in 0..MaxMethods},
     initializer : {[name |-> <<"new">>, phase |-> "Preflight"]},
     inflight_initializer : {[name |-> <<"$inflight_init">>, phase |-> "Inflight"]}]

\* The function definitions a class owns; a &FunctionDefinition is a place
\* in this list: the methods in declaration order, then the two initializers.
Definitions(self) == self.methods \o <<self.initializer, self.inflight_initializer>>

\* Class::all_methods
all_methods(self, include_initializers) ==
    [i \in 1..Len(self.methods) |-> i]
        \o (IF include_initializers
               THEN <<Len(self.methods) + 1, Len(self.methods) + 2>>
               ELSE <<>>)

\* Class::inflight_methods
inflight_methods(self, include_initializers) ==
    SelectSeq(all_methods(self, include_initializers),
              LAMBDA m : Definitions(self)[m].phase = "Inflight")

\* A variant that looks for the method among those of every phase.
closure_handle_method_any_phase(self) ==
    LET methods == all_methods(self, FALSE)
        named == {k \in 1..Len(methods) :
                     Definitions(self)[methods[k]].name = <<CLOSURE_CLASS_HANDLE_METHOD>>}
    IN  IF named = {} THEN <<>>
        ELSE <<methods[CHOOSE k \in named : \A j \in named : k <= j]>>

\* Class::closure_handle_method: the first of inflight_methods(false) whose
\* name is Some(handle), or None.
closure_handle_method(self) ==
    LET methods == inflight_methods(self, FALSE)
        named == {k \in 1..Len(methods) :
                     Definitions(self)[methods[k]].name = <<CLOSURE_CLASS_HANDLE_METHOD>>}
    IN  IF named = {} THEN <<>>
        ELSE <<methods[CHOOSE k \in named : \A j \in named : k <= j]>>

\* No class is looked at.
InitClassIdle ==
    /\ class = [methods |-> <<>>,
                initializer |-> [name |-> <<"new">>, phase |-> "Preflight"],
                inflight_initializer |-> [name |-> <<"$inflight_init">>, phase |-> "Inflight"]]
    /\ closure_called = FALSE
    /\ closure_handle = <<>>

\* Any class.
InitClass ==
    /\ class \in Classes
    /\ closure_called = FALSE
    /\ closure_handle = <<>>

\* class.closure_handle_method()
CallClosureHandleMethod ==
    /\ ~closure_called
    /\ closure_called' = TRUE
    /\ closure_handle' = closure_handle_method(class)
    /\ UNCHANGED <<class, notClassVars>>

----------------------------------------------------------------------------
(* Reference (ast.rs) *)

\* The symbols, expressions and type names references are made of.
RefSymbols ==
    {sy \in Symbols : sy.name \in {<<97>>, <<98>>} /\ sy.span.file = 1 /\ sy.span.end = 1}

Exprs == 1..2

UserDefinedTypes ==
    [root : RefSymbols,
     fields : UNION {[1..n -> RefSymbols] : n \in 0..MaxFields},
     span : {sp \in Spans : sp.file = 1 /\ sp.end = 1}]

References ==
    [variant : {"Identifier"}, symbol : RefSymbols]
    \cup [variant : {"InstanceMember"}, object : Exprs, property : RefSymbols,
          optional_accessor : BOOLEAN]
    \cup [variant : {"ElementAccess"}, object : Exprs, index : Exprs]
    \cup [variant : {"TypeMember"}, type_name : UserDefinedTypes, property : RefSymbols]

NoReference == [variant |-> "none"]

\* #[derive(Clone)] for Symbol
symbol_clone(self) == [name |-> self.name, span |-> self.span]

\* #[derive(Clone)] for UserDefinedType
type_name_clone(self) ==
    [root |-> symbol_clone(self.root),
     fields |-> [i \in 1..Len(self.fields) |-> symbol_clone(self.fields[i])],
     span |-> self.span]

\* A variant of clone that copies every variant.
clone_every_variant(self) == [outcome |-> "returned", value |-> self]

\* Clone for Reference: match self
clone(self) ==
    CASE self.variant = "Identifier" ->
           [outcome |-> "returned",
            value |-> [variant |-> "Identifier", symbol |-> symbol_clone(self.symbol)]]
      [] self.variant = "InstanceMember" ->
           [outcome |-> "panicked", value |-> NoReference]
      [] self.variant = "TypeMember" ->
           [outcome |-> "returned",
            value |-> [variant |-> "TypeMember",
                       type_name |-> type_name_clone(self.type_name),
                       property |-> symbol_clone(self.property)]]
      [] self.variant = "ElementAccess" ->
           [outcome |-> "panicked", value |-> NoReference]

\* No reference is cloned.
InitRefIdle ==
    /\ reference = NoReference
    /\ clone_outcome = "not called"
    /\ cloned = NoReference

\* Any reference.
InitRef ==
    /\ reference \in References
    /\ clone_outcome = "not called"
    /\ cloned = NoReference

\* reference.clone()
CallClone ==
    /\ clone_outcome = "not called"
    /\ clone_outcome' = clone(reference).outcome
    /\ cloned' = clone(reference).value
    /\ UNCHANGED <<reference, notRefVars>>

----------------------------------------------------------------------------
(* Specifications *)

NextPhase == \E P \in Phases, Q \in Phases : CallCanCallTo(P, Q)

\* Nothing of the AST is looked at.
InitAstIdle == InitSymbolIdle /\ InitClassIdle /\ InitRefIdle

InitPhaseSpec ==
    /\ InitPhase /\ InitIds /\ InitCompileIdle
    /\ InitWasmIdle /\ InitFindIdle /\ InitTcfIdle /\ InitAstIdle

SpecPhase == InitPhaseSpec /\ [][NextPhase]_vars

NextIds ==
    \/ \E t \in Threads : ExprNew(t)
    \/ \E t \in Threads : ScopeEmpty(t)
    \/ \E t \in Threads : ScopeNew(t)
    \/ \E t \in Threads : ArgListNew(t)
    \/ \E t \in Threads : ArgListNewEmpty(t)
    \/ \E t \in Threads : Construct(t)
    \/ StartCompile

InitIdsSpec ==
    /\ InitPhase /\ InitIds /\ InitCompileIdle
    /\ InitWasmIdle /\ InitFindIdle /\ InitTcfIdle /\ InitAstIdle

SpecIds == InitIdsSpec /\ [][NextIds]_vars

Next ==
    \/ ParsePhase
    \/ EmitWarnings
    \/ Desugar
    \/ TcRemove
    \/ TcCheck
    \/ TcTypeRef
    \/ TcAssert
    \/ TcJson
    \/ TcInsert
    \/ Lift
    \/ Bail
    \/ StructSchema
    \/ Jsify
    \/ JsEmit
    \/ Dtsify
    \/ DtsEmit
    \/ ExternDtsify
    \/ Return

Init ==
    /\ InitPhase /\ InitIds /\ InitCompile
    /\ InitWasmIdle /\ InitFindIdle /\ InitTcfIdle /\ InitAstIdle

Spec == Init /\ [][Next]_vars

NextWasm ==
    \/ WingcCompile
    \/ Next
    \/ WingcCompileReturn

InitWasmSpec ==
    /\ InitPhase /\ InitIds /\ InitWasm
    /\ InitFindIdle /\ InitTcfIdle /\ InitAstIdle

SpecWasm == InitWasmSpec /\ [][NextWasm]_vars

NextFind ==
    \/ FindStart
    \/ FindLoop
    \/ FindAgain

InitFindSpec ==
    /\ InitPhase /\ InitIds /\ InitCompileIdle
    /\ InitWasmIdle /\ InitFind /\ InitTcfIdle /\ InitAstIdle

SpecFind == InitFindSpec /\ [][NextFind]_vars

\* The function runs on one thread, which goes on while it has a step to take.
SpecFindFair == SpecFind /\ WF_vars(FindStart) /\ WF_vars(FindLoop)

NextSymbol ==
    \/ ApplyEq
    \/ ApplyHash
    \/ ApplySame
    \/ ApplyCmp
    \/ ApplyEquivalent

InitSymbolSpec ==
    /\ InitPhase /\ InitIds /\ InitCompileIdle
    /\ InitWasmIdle /\ InitFindIdle /\ InitTcfIdle
    /\ InitSymbol /\ InitClassIdle /\ InitRefIdle

SpecSymbol == InitSymbolSpec /\ [][NextSymbol]_vars

NextTcf ==
    \/ TcfNewEnv
    \/ TcfSetScopeEnv
    \/ TcfAddStd
    \/ TcfAddBuiltins
    \/ TcfAddThis
    \/ TcfCheck

InitTcfSpec ==
    /\ InitPhase /\ InitIds /\ InitCompileIdle
    /\ InitWasmIdle /\ InitFindIdle /\ InitTcf /\ InitAstIdle

SpecTcf == InitTcfSpec /\ [][NextTcf]_vars

NextClass == CallClosureHandleMethod

InitClassSpec ==
    /\ InitPhase /\ InitIds /\ InitCompileIdle
    /\ InitWasmIdle /\ InitFindIdle /\ InitTcfIdle
    /\ InitSymbolIdle /\ InitClass /\ InitRefIdle

SpecClass == InitClassSpec /\ [][NextClass]_vars

NextRef == CallClone

InitRefSpec ==
    /\ InitPhase /\ InitIds /\ InitCompileIdle
    /\ InitWasmIdle /\ InitFindIdle /\ InitTcfIdle
    /\ InitSymbolIdle /\ InitClassIdle /\ InitRef

SpecRef == InitRefSpec /\ [][NextRef]_vars

----------------------------------------------------------------------------
(* C1: for all phases P and Q, P.can_call_to(Q) is true if and only if      *)
(* Q = Independent or P = Q.                                                *)
C1_CanCallTo ==
    \A i \in 1..Len(calls) :
        calls[i].allowed <=> (calls[i].to = "Independent" \/ calls[i].from = calls[i].to)

\* Cross-phase calls between Preflight and Inflight were made and refused,
\* and a call into Independent was allowed.
C1_Witness ==
    /\ \E i \in 1..Len(calls) :
          calls[i].from = "Preflight" /\ calls[i].to = "Inflight" /\ ~calls[i].allowed
    /\ \E i \in 1..Len(calls) :
          calls[i].from = "Inflight" /\ calls[i].to = "Preflight" /\ ~calls[i].allowed
    /\ \E i \in 1..Len(calls) :
          calls[i].from = "Independent" /\ calls[i].to = "Independent" /\ calls[i].allowed

(* C2: under any interleaving of concurrent constructor calls, no two nodes *)
(* of the same kind ever receive the same ID.                               *)
HandedOut ==
    [k \in Kinds |->
        {nodes[i].id : i \in {j \in 1..Len(nodes) : nodes[j].kind = k}}
        \cup {pending[t].id : t \in {u \in Threads :
                                 pending[u].stage = "got" /\ pending[u].kind = k}}]

C2_UniqueIds ==
    /\ \A i, j \in 1..Len(nodes) :
          (i # j /\ nodes[i].kind = nodes[j].kind) => nodes[i].id # nodes[j].id
    /\ \A t, u \in Threads :
          (t # u /\ pending[t].stage = "got" /\ pending[u].stage = "got"
             /\ pending[t].kind = pending[u].kind) => pending[t].id # pending[u].id
    /\ \A t \in Threads, i \in 1..Len(nodes) :
          (pending[t].stage = "got" /\ pending[t].kind = nodes[i].kind)
             => pending[t].id # nodes[i].id

\* Two threads are inside constructors of the same kind at the same time,
\* and nodes of that kind already exist.
C2_Witness ==
    /\ pending[1].stage = "got" /\ pending[2].stage = "got"
    /\ pending[1].kind = pending[2].kind
    /\ \E i \in 1..Len(nodes) : nodes[i].kind = pending[1].kind
    /\ compiles = 2

(* C3: each counter only ever increases; every allocation returns the       *)
(* counter's current value and advances that counter, and only that one, by *)
(* exactly 1; no operation, starting a compile included, decreases or       *)
(* resets a counter; an ID once handed out is never handed out again.       *)
C3_Step ==
    /\ \A k \in Kinds : counter'[k] >= counter[k]
    /\ (counter' # counter) =>
          \E t \in Threads, k \in Kinds :
              /\ counter' = [counter EXCEPT ![k] = @ + 1]
              /\ pending[t] = Idle
              /\ pending'[t].stage = "got"
              /\ pending'[t].kind = k
              /\ pending'[t].id = counter[k]
    /\ (pending' # pending /\ \E t \in Threads : pending'[t].stage = "got" /\ pending[t] = Idle)
          => counter' # counter
    /\ \A k \in Kinds : \A n \in HandedOut[k] : n < counter[k]
    /\ \A k \in Kinds : \A n \in HandedOut[k]' : n < counter'[k]

C3_Monotonic == [][C3_Step]_vars

\* All three counters have advanced and a second compile has started since.
C3_Witness ==
    /\ counter["expr"] = 2 /\ counter["scope"] = 1 /\ counter["arglist"] = 1
    /\ compiles = 2
    /\ Len(nodes) = 4

----------------------------------------------------------------------------
(* Reading the log *)

\* The files a pass has visited, in the order of its visits.
FilesOf(pass) ==
    LET sel == SelectSeq(log, LAMBDA e : e.pass = pass)
    IN  [i \in 1..Len(sel) |-> sel[i].file]

Ran(pass) == \E i \in 1..Len(log) : log[i].pass = pass

\* The order in which parse_wing_project inserted the files into the AST map.
InsertionOrder == [i \in 1..Len(topo_sorted_files) |-> i]

PipelineOrder ==
    <<"parse", "closure", "typecheck", "typeref", "tc_assert", "json", "lift",
      "schema", "jsify", "dtsify">>

PipelinePasses == Range(PipelineOrder)

Rank == [p \in PipelinePasses |-> CHOOSE i \in 1..Len(PipelineOrder) : PipelineOrder[i] = p]

CodeProducing == {"schema", "jsify", "dtsify", "extern_dtsify"}

\* The positions of compile at which the lift pass has finished.
LiftFinished ==
    pc \in {"bail", "schema", "jsify", "js_emit", "dtsify", "dts_emit", "extern", "done"}

\* The positions of compile at which the type-check loop has finished.
TypeCheckFinished == pc = "lift" \/ LiftFinished

ReportedIn(phases) ==
    \E i \in 1..Len(sink) : sink[i].severity = "error" /\ sink[i].phase \in phases

(* C4: the passes that run on a given file run in the order parse, closure  *)
(* desugaring, type-check, type-reference normalization, type-check assert, *)
(* JSON validation, lift, struct-schema collection, JS emission,            *)
(* declaration emission; desugaring of every file finishes before the       *)
(* type-check of any file starts, and the lift of any file starts only      *)
(* after the JSON validation of every file has finished.                    *)
PassesOn(f) ==
    LET sel == SelectSeq(log, LAMBDA e : e.file = f /\ e.pass \in PipelinePasses)
    IN  [i \in 1..Len(sel) |-> Rank[sel[i].pass]]

Visits(pass) == {i \in 1..Len(log) : log[i].pass = pass}

\* Every visit of pass `first` comes before every visit of pass `then`, and
\* once `then` has started `first` has visited every file.
AllBefore(first, then) ==
    LET a == Visits(first)
        b == Visits(then)
    IN  /\ \A i \in a, j \in b : i < j
        /\ b # {} => {log[i].file : i \in a} = Range(topo_sorted_files)

C4_PassOrder ==
    /\ \A f \in Range(topo_sorted_files) :
          LET ranks == PassesOn(f)
          IN  \A k \in 1..(Len(ranks) - 1) : ranks[k] < ranks[k + 1]
    /\ AllBefore("closure", "typecheck")
    /\ AllBefore("json", "lift")

\* A compile of a directory of three files has run all ten passes on each file.
C4_Witness ==
    /\ pc = "done" /\ result = "Ok" /\ source_is_dir
    /\ Len(topo_sorted_files) = 3
    /\ \A p \in PipelinePasses : Len(FilesOf(p)) = 3

(* C5: compile type-checks the files in exactly the order of the sorted     *)
(* list, each once, and completes type-check, type-reference normalization, *)
(* type-check assert and JSON validation of one file before it starts the   *)
(* type-check of the next.                                                  *)
TcPasses == <<"typecheck", "typeref", "tc_assert", "json">>

TcPassSet == Range(TcPasses)

TcLog == SelectSeq(log, LAMBDA e : e.pass \in TcPassSet)

C5_TopoTypeCheck ==
    LET tc == TcLog
    IN  /\ Len(tc) <= 4 * Len(topo_sorted_files)
        /\ \A k \in 1..Len(tc) :
              tc[k] = Visit(TcPasses[((k - 1) % 4) + 1],
                            topo_sorted_files[((k - 1) \div 4) + 1])
        /\ TypeCheckFinished => Len(tc) = 4 * Len(topo_sorted_files)

\* The loop has ended over three files sorted otherwise than they were parsed.
C5_Witness ==
    /\ pc = "lift"
    /\ topo_sorted_files = <<3, 1, 2>>
    /\ FilesOf("typecheck") = <<3, 1, 2>>

(* C6, as stated: every per-file pass (closure desugaring, type-check,      *)
(* lift, struct-schema collection, JS emission, declaration emission)       *)
(* visits the files in the topological order produced by the parse phase.   *)
C6_SingleTopoOrder ==
    \A p \in {"closure", "typecheck", "lift", "schema", "jsify", "dtsify"} :
        IsPrefix(FilesOf(p), topo_sorted_files)

(* C6, amended: type-check, JS emission and declaration emission visit the  *)
(* files in the topological order; closure desugaring visits them in the    *)
(* order the parse phase inserted them into the AST map; lift and           *)
(* struct-schema collection visit them in the order of the AST map as the   *)
(* type-check loop left it, which holds the same files.                     *)
C6_PassOrders ==
    /\ \A p \in {"typecheck", "jsify", "dtsify"} :
          IsPrefix(FilesOf(p), topo_sorted_files)
    /\ IsPrefix(FilesOf("closure"), InsertionOrder)
    /\ IsPrefix(FilesOf("lift"), asts)
    /\ IsPrefix(FilesOf("schema"), asts)
    /\ TypeCheckFinished =>
          /\ Len(asts) = Len(topo_sorted_files)
          /\ Range(asts) = Range(topo_sorted_files)
    /\ LiftFinished => FilesOf("lift") = asts

\* A compile has ended in which neither closure desugaring nor lift visited
\* the files in the topological order.
C6_Witness ==
    /\ pc = "done" /\ result = "Ok" /\ source_is_dir
    /\ FilesOf("closure") # topo_sorted_files
    /\ FilesOf("lift") # topo_sorted_files
    /\ FilesOf("schema") = FilesOf("lift")
    /\ FilesOf("jsify") = topo_sorted_files
    /\ FilesOf("dtsify") = topo_sorted_files

(* C7, as stated: if an error was reported during the parse phase, compile  *)
(* does not run the type-check phase on any file.                           *)
C7_NoTypeCheckAfterParseError ==
    ReportedIn({"parse"}) => ~Ran("typecheck")

(* C7, amended: if an error was reported during the parse phase, compile    *)
(* still type-checks and lifts every file of the list the parse phase       *)
(* returned, but runs no code-producing phase, writes no file and returns   *)
(* Err.                                                                     *)
C7_ParseErrorGatesOutputOnly ==
    (ReportedIn({"parse"}) /\ pc = "done") =>
        /\ result = "Err"
        /\ FilesOf("typecheck") = topo_sorted_files
        /\ FilesOf("lift") = asts
        /\ \A p \in CodeProducing : ~Ran(p)
        /\ written = {}

\* A compile of three files whose parse phase reported an error has returned.
C7_Witness ==
    /\ pc = "done"
    /\ ReportedIn({"parse"})
    /\ Len(FilesOf("typecheck")) = 3

(* C8: if an error is in the sink when the lift pass has finished, compile  *)
(* runs none of the code-producing phases and returns Err; the lift pass    *)
(* runs on every file even when type-checking reported errors.              *)
AnalysisPhases == {"parse", "typecheck", "json", "lift"}

C8_BailOut ==
    /\ (LiftFinished /\ ReportedIn(AnalysisPhases)) =>
          /\ pc \in {"bail", "done"}
          /\ pc = "done" => result = "Err"
          /\ \A p \in CodeProducing : ~Ran(p)
          /\ written = {}
    /\ LiftFinished =>
          /\ FilesOf("lift") = asts
          /\ Range(asts) = Range(topo_sorted_files)

\* Type-checking reported an error, lift ran on all three files, and compile
\* returned Err.
C8_Witness ==
    /\ pc = "done" /\ result = "Err"
    /\ ReportedIn({"typecheck"})
    /\ ~ReportedIn({"parse"})
    /\ Len(FilesOf("lift")) = 3

(* C9: whenever compile returns Err, no output file was written to the      *)
(* output directory during that compile.                                    *)
C9_NoOutputOnErr ==
    (pc = "done" /\ result = "Err") => written = {}

(* C10: each emitting phase (JS emission, declaration emission, extern      *)
(* declaration emission) is all-or-nothing: at the end of the phase either  *)
(* every output file of the phase has been written or none has.             *)
WrittenOf(kind) == {w \in written : w[1] = kind}

C10_AllOrNothing ==
    /\ pc \in {"dtsify", "dts_emit", "extern", "done"} =>
          WrittenOf("js") \in {{}, OutputFiles("js", "jsify")}
    /\ pc \in {"extern", "done"} =>
          WrittenOf("dts") \in {{}, OutputFiles("dts", "dtsify")}
    /\ pc = "done" =>
          WrittenOf("extern") \in {{}, {<<"extern", i>> : i \in 1..extern_files}}

(* C11: compile returns Ok exactly when the sink holds no diagnostic of      *)
(* severity error at the moment it returns, and Err otherwise; warnings     *)
(* alone (the lockfile warning) never make compile return Err.              *)
C11_ResultMatchesSink ==
    pc = "done" =>
        /\ result \in {"Ok", "Err"}
        /\ result = "Ok" <=> ~found_errors
        /\ result = "Err" <=> found_errors

\* compile returned Ok although the sink holds lockfile warnings.
C11_Witness ==
    /\ pc = "done" /\ result = "Ok"
    /\ Len(sink) >= 2
    /\ \A i \in 1..Len(sink) : sink[i].severity = "warning"

(* C12: wingc_compile calls compile only when its argument splits on ';'    *)
(* into exactly two parts and the first part is an existing path; in every  *)
(* other case it reports exactly one error and returns the sentinel error   *)
(* value without compiling. When compile was called, wingc_compile returns  *)
(* the JSON envelope if compile returned Ok, the sentinel if Err.           *)
Separators == {i \in 1..Len(args) : args[i] = ";"}

ValidArgs ==
    /\ Cardinality(Separators) = 1
    /\ \E i \in Separators : SubSeq(args, 1, i - 1) \in existing

CompileCalled == pc # "idle"

C12_WingcCompile ==
    /\ CompileCalled => ValidArgs
    /\ (ret # "none" /\ ~ValidArgs) =>
          /\ ~CompileCalled
          /\ ret = "WASM_RETURN_ERROR"
          /\ Len(sink) = 1 /\ sink[1].severity = "error"
    /\ ~CompileCalled => (log = <<>> /\ result = "none" /\ written = {})
    /\ (ret # "none" /\ ValidArgs) =>
          /\ pc = "done"
          /\ result = "Ok" => ret = "json"
          /\ result = "Err" => ret = "WASM_RETURN_ERROR"
          /\ result \in {"Ok", "Err"}

\* Called with "a;a" where a exists, wingc_compile compiled and returned the
\* JSON envelope.
C12_Witness ==
    /\ args = <<"a", ";", "a">>
    /\ ret = "json"
    /\ Ran("jsify")

(* C13: find_nearest_wing_project_dir starts at the source file's directory *)
(* (the source path itself when it is a directory) and ascends one parent   *)
(* at a time; it returns the first directory on that way, nearest first and *)
(* including "/", that holds a wing.toml or a package.json whose JSON has   *)
(* a `wing` key (a package.json without the key or that does not parse is   *)
(* no match and the ascent goes on); when no directory up to the root       *)
(* matches it returns the starting directory.                               *)
RECURSIVE Ascent(_)
Ascent(p) ==
    IF has_parent(p) THEN <<p>> \o Ascent(parent(p))
    ELSE IF p = Root THEN <<Root>>
    ELSE <<p, Root>>

StartOf(p) == IF fs[p].dir THEN p ELSE parent_or_root(p)

HoldsManifest(p) == fs[p].manifest \in {"wing.toml", "package.json with wing"}

Nearest(start) ==
    LET way == Ascent(start)
        hits == {i \in 1..Len(way) : HoldsManifest(way[i])}
    IN  IF hits = {} THEN start
        ELSE way[CHOOSE i \in hits : \A j \in hits : i <= j]

C13_NearestProject ==
    /\ \A k \in 1..Len(find_results) :
          find_results[k].ret = Nearest(StartOf(find_results[k].arg))
    /\ find_pc = "loop" =>
          /\ initial_dir = StartOf(source_path)
          /\ LET way == Ascent(initial_dir)
             IN  \E i \in 1..Len(way) :
                    /\ way[i] = current_dir
                    /\ \A j \in 1..(i - 1) : ~HoldsManifest(way[j])

\* Called on a file two levels down, whose directory holds a package.json
\* without a `wing` key and whose grandparent "/" holds one with the key,
\* the function returned "/".
C13_Witness ==
    /\ Len(find_results) >= 1
    /\ LET r == find_results[1]
       IN  /\ r.arg.abs /\ Len(r.arg.comps) = 2
           /\ ~fs[r.arg].dir
           /\ fs[parent(r.arg)].manifest = "package.json without wing"
           /\ fs[Root].manifest = "package.json with wing"
           /\ r.ret = Root

(* C14: discovery is idempotent: for every source path p and every layout   *)
(* of the file system, find_nearest_wing_project_dir applied to its own     *)
(* result returns that result, also when no manifest is found and the       *)
(* initial directory is returned, when p is a relative path with an empty   *)
(* parent, and when the parent directory of p does not exist.               *)
C14_Idempotent ==
    \A k \in 2..Len(find_results) :
        find_results[k].arg = find_results[k - 1].ret
            => find_results[k].ret = find_results[k - 1].ret

(* C15: for all symbols a and b: a == b iff their names are equal, the span *)
(* ignored; a == b implies hash(a) = hash(b); a string key equal to a.name  *)
(* is equivalent to a for map lookup; a.same(b) iff name and span are both  *)
(* equal; cmp orders by name first, then by span, so cmp(a, b) = Equal iff  *)
(* a.same(b), and two symbols can be == while cmp does not return Equal.    *)
Applied(ops) == ops \subseteq sym_applied

C15_SymbolRelations ==
    /\ Applied({"eq"}) => (sym_observed.eq <=> sym_a.name = sym_b.name)
    /\ (Applied({"eq", "hash"}) /\ sym_observed.eq) =>
          sym_observed.hash_a = sym_observed.hash_b
    /\ Applied({"equivalent"}) => (sym_observed.equivalent <=> sym_b.name = sym_a.name)
    /\ Applied({"equivalent", "eq"}) => (sym_observed.equivalent <=> sym_observed.eq)
    /\ Applied({"same"}) =>
          (sym_observed.same <=> (sym_a.name = sym_b.name /\ sym_a.span = sym_b.span))
    /\ Applied({"cmp"}) =>
          /\ sym_a.name # sym_b.name => sym_observed.cmp = str_cmp(sym_a.name, sym_b.name)
          /\ sym_a.name = sym_b.name => sym_observed.cmp = span_cmp(sym_a.span, sym_b.span)
          /\ sym_observed.cmp = "Equal" <=> sym_a = sym_b
    /\ Applied({"cmp", "same"}) => (sym_observed.cmp = "Equal" <=> sym_observed.same)
    /\ Applied({"cmp", "eq"}) => (sym_observed.cmp = "Equal" => sym_observed.eq)

\* Two symbols of the same name at different places: == holds, the hashes
\* agree, same does not hold and cmp returns Less.
C15_Witness ==
    /\ sym_applied = SymbolOps
    /\ Len(sym_a.name) = 2
    /\ sym_a.span.file = sym_b.span.file
    /\ sym_observed.eq
    /\ sym_observed.equivalent
    /\ ~sym_observed.same
    /\ sym_observed.cmp = "Less"

(* C16: compile reports a lockfile diagnostic if and only if at least one   *)
(* of pnpm-lock.yaml, yarn.lock, bun.lock, bun.lockb exists in the project  *)
(* directory: exactly one diagnostic per lockfile present, each of severity *)
(* warning and never error, reported after the parse phase and whether or   *)
(* not parsing succeeded.                                                   *)
LockfileDiagnostics == {i \in 1..Len(sink) : sink[i].phase = "lockfile"}

C16_LockfileWarnings ==
    /\ pc \in {"start", "warn"} => LockfileDiagnostics = {}
    /\ pc \notin {"start", "warn"} =>
          /\ Cardinality(LockfileDiagnostics) = Cardinality(lockfiles)
          /\ LockfileDiagnostics # {} <=> \E l \in Range(LOCKFILES) : l \in lockfiles
          /\ Ran("parse")
    /\ \A i \in LockfileDiagnostics :
          /\ sink[i].severity = "warning"
          /\ \A j \in 1..Len(sink) : sink[j].phase = "parse" => j < i
          /\ \A j \in 1..Len(sink) :
                (sink[j].phase \notin {"parse", "lockfile"}) => i < j

\* Parsing failed and three lockfiles exist: the sink holds the parse error
\* followed by three warnings.
C16_Witness ==
    /\ pc = "desugar"
    /\ Cardinality(lockfiles) = 3
    /\ Len(sink) = 4
    /\ sink[1] = Error("parse")
    /\ \A i \in 2..4 : sink[i] = Warning("lockfile")

(* C17: type_check_file binds `this` in the root environment of a file if   *)
(* and only if the file is an entrypoint file, and before the statements of *)
(* the file are checked; the root environment of every file is created     *)
(* with no parent, kind Scope, phase Preflight, statement index 0 and the   *)
(* package of the file, and the std module and the builtins are installed   *)
(* before the statements are checked.                                       *)
C17_RootEnvironment ==
    /\ tcf_pc \notin {"idle", "call"} =>
          /\ tcf_env.parent = "None"
          /\ tcf_env.kind = "Scope"
          /\ tcf_env.phase = "Preflight"
          /\ tcf_env.statement_idx = 0
          /\ tcf_env.package = tcf_file.package
    /\ "this" \in tcf_env.symbols => is_entrypoint_file(tcf_file.path)
    /\ tcf_pc \in {"check", "done"} =>
          /\ "this" \in tcf_env.symbols <=> is_entrypoint_file(tcf_file.path)
          /\ {"std", "builtins"} \subseteq tcf_env.symbols
          /\ tcf_env.scope_env
    /\ tcf_pc = "done" => tcf_checked = tcf_env.symbols
    /\ tcf_pc # "done" => tcf_checked = {}

\* The statements of app.test.w of package lib were checked with `this`,
\* the std module and the builtins bound.
C17_Witness ==
    /\ tcf_pc = "done"
    /\ tcf_file = [path |-> <<"app", "test", "w">>, package |-> "lib"]
    /\ tcf_checked = {"std", "builtins", "this"}

(* C18: closure_handle_method returns the first method, in declaration      *)
(* order, of the method list of the class whose signature is of phase       *)
(* Inflight and whose name is `handle`; it returns None when there is none  *)
(* (also when the class has a `handle` method of phase Preflight or         *)
(* Independent); it never returns an initializer and leaves the class as it *)
(* is.                                                                      *)
InflightHandles ==
    {i \in 1..Len(class.methods) :
        /\ class.methods[i].phase = "Inflight"
        /\ class.methods[i].name = <<"handle">>}

C18_Returned ==
    closure_called =>
        /\ InflightHandles = {} <=> closure_handle = <<>>
        /\ InflightHandles # {} =>
              /\ closure_handle[1] \in InflightHandles
              /\ \A i \in InflightHandles : closure_handle[1] <= i
        /\ \A i \in 1..Len(closure_handle) : closure_handle[i] <= Len(class.methods)

C18_Step == C18_Returned' /\ class' = class

C18_ClosureHandleMethod == [][C18_Step]_vars

\* A class whose first method is a preflight `handle` and whose second is
\* an inflight `handle`: the second was returned.
C18_Witness ==
    /\ closure_called
    /\ Len(class.methods) = 2
    /\ class.methods[1] = [name |-> <<"handle">>, phase |-> "Preflight"]
    /\ class.methods[2] = [name |-> <<"handle">>, phase |-> "Inflight"]
    /\ closure_handle = <<2>>

(* C19: cloning a Reference panics when it is an InstanceMember or an       *)
(* ElementAccess; for an Identifier or a TypeMember it returns a reference  *)
(* of the same variant with equal symbol, type name and property; no        *)
(* InstanceMember or ElementAccess is ever cloned successfully.             *)
C19_ReferenceClone ==
    clone_outcome # "not called" =>
        /\ reference.variant \in {"InstanceMember", "ElementAccess"} =>
              (clone_outcome = "panicked" /\ cloned = NoReference)
        /\ reference.variant = "Identifier" =>
              /\ clone_outcome = "returned"
              /\ cloned.variant = "Identifier"
              /\ cloned.symbol = reference.symbol
        /\ reference.variant = "TypeMember" =>
              /\ clone_outcome = "returned"
              /\ cloned.variant = "TypeMember"
              /\ cloned.type_name = reference.type_name
              /\ cloned.property = reference.property
        /\ clone_outcome = "returned" =>
              cloned.variant \notin {"InstanceMember", "ElementAccess"}

\* The clone of an optional instance-member reference panicked.
C19_Witness ==
    /\ clone_outcome = "panicked"
    /\ reference.variant = "InstanceMember"
    /\ reference.optional_accessor

(* C20: with a sorted file list that is a permutation of the keys of the    *)
(* AST map, the type-check loop always finds the AST it looks up; after     *)
(* every iteration and at the end of the loop the map holds exactly the     *)
(* files it held after desugaring, one scope per file; every file passed to *)
(* the lift pass has been type-checked exactly once before.                 *)
NoDuplicates(s) == \A i, j \in 1..Len(s) : i # j => s[i] # s[j]

InTcIteration == pc \in {"tc_check", "tc_typeref", "tc_assert", "tc_json", "tc_insert"}

C20_AstMapPreserved ==
    LET parsed == Range(FilesOf("parse"))
        checked == FilesOf("typecheck")
    IN  /\ pc = "tc_remove" => tc_file \in Range(asts)
        /\ (pc = "tc_remove" \/ TypeCheckFinished) =>
              /\ Range(asts) = parsed
              /\ scope = 0
        /\ InTcIteration =>
              /\ Range(asts) \cup {scope} = parsed
              /\ scope \notin Range(asts)
        /\ pc # "start" => NoDuplicates(asts)
        /\ NoDuplicates(checked)
        /\ \A f \in Range(FilesOf("lift")) : f \in Range(checked)

\* The loop over three files has ended, the map is in an order that is
\* neither the sorted nor the insertion order, and lift has visited a file.
C20_Witness ==
    /\ pc = "lift"
    /\ Len(asts) = 3
    /\ asts # topo_sorted_files
    /\ asts # InsertionOrder
    /\ topo_sorted_files # InsertionOrder
    /\ Len(FilesOf("lift")) = 2

(* C21: for every source path (absolute, relative, a bare file name whose   *)
(* parent is empty, or "/" itself) the ascent loop of                       *)
(* find_nearest_wing_project_dir terminates: each step moves to the parent  *)
(* directory, a path without parent is replaced by "/", and the loop is     *)
(* left at the first match or once "/" has been examined.                   *)
C21_Step ==
    find_pc = "loop" =>
        /\ (find_pc' = "loop" /\ current_dir' # current_dir) =>
              /\ ~HoldsManifest(current_dir)
              /\ current_dir # Root
              /\ Len(current_dir.comps) > 0 =>
                    /\ current_dir'.abs = current_dir.abs
                    /\ current_dir'.comps =
                          SubSeq(current_dir.comps, 1, Len(current_dir.comps) - 1)
              /\ Len(current_dir.comps) = 0 => current_dir' = Root
        /\ find_pc' = "returned" => (HoldsManifest(current_dir) \/ current_dir = Root)
        /\ (HoldsManifest(current_dir) \/ current_dir = Root) => find_pc' # "loop"

C21_AscentTerminates ==
    /\ [][C21_Step]_vars
    /\ (find_pc \in {"call", "loop"}) ~> (find_pc = "returned")

\* Called on a bare file name, the loop has examined the empty path and
\* has come to "/".
C21_Witness ==
    /\ find_pc = "loop"
    /\ find_results = <<>>
    /\ source_path = [abs |-> FALSE, comps |-> <<"d">>]
    /\ initial_dir = Empty
    /\ current_dir = Root

=============================================================================
